---- MODULE Spec2Model ----
(***************************************************************************)
(* State-machine model of the population-based-training trial scheduler:  *)
(* TrialScheduler.run and its two dispatch strategies                      *)
(* (src/src/trial_scheduler.py) together with the Tuner operations the    *)
(* scheduler calls (src/src/tuner.py).  The worker actors, TrialState,    *)
(* TrialPhase, TrialResult and the configuration module are not part of   *)
(* the sources at hand; they are modelled from the specification text.    *)
(*                                                                         *)
(* Spec runs the scheduler against a Tuner actor that answers calls while  *)
(* its run executes; SpecActor also admits a Tuner actor that executes one *)
(* call at a time, SpecFaults adds faulty workers, SpecPreempt runs a     *)
(* pool of two CPU workers and a GPU worker.  src/src/worker.py           *)
(* holds a generate_all_workers that Tuner.__init__ cannot call: with it   *)
(* construction raises (ConstructionRaises); every other state is of a     *)
(* Tuner built over worker actors.                                         *)
(*                                                                         *)
(* A pass of assign_trial_to_worker waits in ray.get for the Tuner and for  *)
(* the workers in several places.  Every such wait is a position of pc:    *)
(* the scheduler sends its calls in one step, each worker answers in a     *)
(* step of its own while workers return trials and the Tuner executes      *)
(* other calls, and the scheduler goes on once every call it waits for is  *)
(* answered.  log holds the remote calls of the pass or routing under way, *)
(* in order; a call to a worker has status SENT until the worker answers.  *)
(* A call to the Tuner that run waits for takes two steps of two threads:  *)
(* the Tuner actor executes it, which leaves its answer in tuner_reply,    *)
(* and ray.get returns the answer to run.                                  *)
(*                                                                         *)
(* Real-valued hyperparameters (lr, momentum) are held as integers in     *)
(* units of 1/HpUnit; the values drawn are multiples of 5^4 so that the   *)
(* perturbations *0.8 and *1.2 are exact for every mutation the bounds    *)
(* allow.                                                                  *)
(***************************************************************************)
EXTENDS Integers, Sequences, FiniteSets, TLC

\* ------------------------------------------------------------------ bounds

\* Most Tuner.mutation requests the workers make in one run (caps the
\* otherwise unbounded chain of perturbed hyperparameter values).
MaxMutations == 1

\* Most Tuner.update_trial_result reports the workers make in one run.
MaxReports == 1

\* Most Tuner.submit_trial calls a client makes in one run.
MaxSubmits == 1

\* The runs explored: <<population size N, the worker list handed to the
\* scheduler as <<worker id, worker type>> in the caller's order, slots of
\* each GPU worker>>.
Scenarios ==
    { <<1, << <<0, "CPU">> >>, 1>>,
      <<1, << <<0, "GPU">> >>, 2>>,
      <<2, << <<0, "CPU">> >>, 1>>,
      <<2, << <<0, "CPU">>, <<1, "CPU">> >>, 1>>,
      <<2, << <<1, "GPU">>, <<0, "CPU">> >>, 2>>,
      <<2, << <<0, "GPU">>, <<1, "GPU">> >>, 2>>,
      <<3, << <<0, "CPU">>, <<1, "GPU">> >>, 1>> }

\* The runs explored for preemption: two CPU workers train while the GPU
\* worker falls free, and a run of one trial.
PreemptionScenarios ==
    { <<1, << <<0, "CPU">> >>, 1>>,
      <<3, << <<0, "CPU">>, <<1, "CPU">>, <<2, "GPU">> >>, 1>> }

\* The runs in which workers ask for mutations.
MutatingScenarios == { sc \in Scenarios : sc[1] <= 2 }

\* The runs in which workers report to Tuner.update_trial_result.
ReportingScenarios == { sc \in Scenarios : sc[1] = 1 }

\* The runs in which a client calls Tuner.submit_trial.
SubmittingScenarios == { sc \in Scenarios : sc[1] = 1 }

\* ------------------------------------------------------- configuration

\* config.STOP_ITERATION / config.PHASE_ITERATION (end-to-end scenario 1).
STOP_ITERATION == 4

PHASE_ITERATION == 2

\* Free slots of an idle CPU worker.
CpuSlots == 1

\* The learning rates and momenta drawn are multiples of HpStep.
HpStep == 5 * 5 * 5 * 5

\* Hyperparameter unit: lr = n / HpUnit, momentum = n / HpUnit, so that the
\* values drawn are the eighths 1/8 .. 7/8.
HpUnit == 8 * HpStep

\* ------------------------------------------------------------ helpers

Min(a, b) == IF a <= b THEN a ELSE b

Range(s) == { s[i] : i \in 1..Len(s) }

\* list.remove(x): drops the first element equal to x.
RECURSIVE Remove(_, _)
Remove(s, x) ==
    IF s = << >> THEN << >>
    ELSE IF Head(s) = x THEN Tail(s)
    ELSE << Head(s) >> \o Remove(Tail(s), x)

\* A choice that takes the first element whatever its key.
FirstInOrder(s) == s[1]

\* max(seq, key=iteration): the first element with the largest key.
RECURSIVE MaxByIteration(_)
MaxByIteration(s) ==
    IF Len(s) = 1 THEN s[1]
    ELSE LET r == MaxByIteration(Tail(s))
         IN  IF r.iteration > Head(s).iteration THEN r ELSE Head(s)

\* min(seq, key=iteration): the first element with the smallest key.
RECURSIVE MinByIteration(_)
MinByIteration(s) ==
    IF Len(s) = 1 THEN s[1]
    ELSE LET r == MinByIteration(Tail(s))
         IN  IF r.iteration < Head(s).iteration THEN r ELSE Head(s)

\* ------------------------------------------------------------ TrialState

NoWorker == -1

\* Hyperparameter(lr=..., momentum=..., batch_size=..., model_type=RESNET_18)
Hyperparameter(lr, momentum, batch_size) ==
    [ lr |-> lr, momentum |-> momentum, batch_size |-> batch_size,
      model_type |-> "RESNET_18" ]

\* random.choice([64, 128, 256, 512, 1024])
BatchSizes == { 64, 128, 256, 512, 1024 }

\* Values random.uniform(0.001, 1) may return, of those the model can hold.
UniformDraws == { HpStep * k : k \in 1..7 }

\* The hyperparameters drawn for a population, trial by trial: each lr and
\* momentum from UniformDraws, each batch_size from BatchSizes, independently.
PopulationDraws ==
    { << Hyperparameter(HpStep * 7, HpStep * 6, 512),
         Hyperparameter(HpStep * 1, HpStep * 7, 512),
         Hyperparameter(HpStep * 3, HpStep * 6, 256) >>,
      << Hyperparameter(HpStep * 2, HpStep * 2, 64),
         Hyperparameter(HpStep * 2, HpStep * 2, 64),
         Hyperparameter(HpStep * 5, HpStep * 1, 1024) >> }

\* The draws explored in the scenario sc.  Only Tuner.mutation reads a
\* hyperparameter: a run without mutations is explored for one draw.
DrawsIn(sc) ==
    IF sc \in MutatingScenarios THEN PopulationDraws
    ELSE { << Hyperparameter(HpStep * 7, HpStep * 6, 512),
              Hyperparameter(HpStep * 1, HpStep * 7, 512),
              Hyperparameter(HpStep * 3, HpStep * 6, 256) >> }

\* stop_iteration passed by generate_trial_states.
TestStopIteration == 100

\* TrialState(i, hyperparameter, stop_iteration=...) as constructed for a
\* fresh population.
TrialState(i, hyperparameter) ==
    [ id |-> i, hyperparameter |-> hyperparameter,
      stop_iteration |-> TestStopIteration, checkpoint |-> -1,
      iteration |-> 0, phase |-> 0, accuracy |-> 0, status |-> "PENDING",
      worker_id |-> NoWorker, worker_type |-> "NONE" ]

\* generate_trial_states(n) with draws the hyperparameters random returned.
generate_trial_states(n, draws) == [ k \in 1..n |-> TrialState(k - 1, draws[k]) ]

\* --------------------------------------------------------------- state

VARIABLES
    trial_state_nums,        \* TrialScheduler.trial_state_nums
    workers,                 \* TrialScheduler.workers (worker ids, caller's order)
    worker_types,            \* each worker actor's type
    gpu_workers,             \* TrialScheduler.gpu_workers (worker ids, in order)
    cpu_workers,             \* TrialScheduler.cpu_workers (worker ids, in order)
    gpu_slots,               \* free slots of an idle GPU worker
    pending_trial_states,    \* TrialScheduler.pending_trial_states
    completed_trial_states,  \* TrialScheduler.completed_trial_states
    running_futures,         \* TrialScheduler.running_futures (handles)
    current_phase,           \* TrialScheduler.trial_phase.current_phase
    trial_progress,          \* Tuner.trial_result.trial_progress (the ledger)
    history_best,            \* Tuner.trial_result.history_best
    shared,                  \* ids whose ledger entry is the very object queued
    futures,                 \* the object store: state of each trial's handle
    worker_phase,            \* each worker's view of the phase
    pc,                      \* position of TrialScheduler.run
    strategy,                \* strategy selected by the latest tick
    mutations,               \* number of NEED_MUTATION results returned
    reports,                 \* number of update_trial_result calls sent
    submits,                 \* number of submit_trial calls sent
    active_trials,           \* get_active_trials answers of the pass, per CPU worker
    tuner_threads,           \* calls the Tuner actor executes at a time
    tuner_mailbox,           \* calls sent to the Tuner actor, not yet taken up
    tuner_reply,             \* the Tuner's answer that run waits for in ray.get
    log                      \* remote calls of the pass or routing under way, in order

\* What construction fixes for the whole run.
pool == << trial_state_nums, workers, worker_types, gpu_workers, cpu_workers,
           gpu_slots, tuner_threads >>

vars == << pool, pending_trial_states,
           completed_trial_states, running_futures, current_phase,
           trial_progress, history_best, shared, futures, worker_phase, pc,
           strategy, mutations, reports, submits, active_trials,
           tuner_mailbox, tuner_reply, log >>

\* A handle is named by the id of the trial it was issued for.
NoFuture == -1

Ids == 0 .. (trial_state_nums - 1)

Event(op, to, id, n, status) ==
    [ op |-> op, to |-> to, id |-> id, n |-> n, status |-> status ]

NoEvent == << >>

\* The donor of a mutation the Tuner has not answered.
NoDonor == -1

\* A call in the Tuner actor's mailbox.
Call(op, args) == [ op |-> op, args |-> args ]

\* The value the Tuner actor returned for a call of run: the object ray.get
\* hands to the caller, a copy of what the method returned.
Reply(op, val) == [ op |-> op, val |-> val ]

\* No answer of the Tuner is waiting for run.
NoReply == Reply("none", << >>)

\* ------------------------------------------------------- worker interface

\* The value held by a handle that has no value.
NoTrialState(i) == TrialState(i, Hyperparameter(0, 0, 0))

\* A handle that was never issued, or whose result has been consumed.
NoHandle(i) ==
    [ state |-> "none", worker |-> NoWorker, val |-> NoTrialState(i), base |-> 0 ]

get_worker_type(w) == worker_types[w]

\* Trials a worker is training: assigned to it and not yet returned.
ActiveOn(fs, w) == { i \in DOMAIN fs : fs[i].state = "running" /\ fs[i].worker = w }

get_available_slots(fs, w) ==
    (IF get_worker_type(w) = "GPU" THEN gpu_slots ELSE CpuSlots)
        - Cardinality(ActiveOn(fs, w))

\* Snapshot of the trials training on w, in id order, each as the worker
\* holds it.
RECURSIVE ActiveSeq(_, _, _)
ActiveSeq(fs, w, i) ==
    IF i \notin DOMAIN fs THEN << >>
    ELSE (IF i \in ActiveOn(fs, w) THEN << fs[i].val >> ELSE << >>)
             \o ActiveSeq(fs, w, i + 1)

get_active_trials(fs, w) == ActiveSeq(fs, w, 0)

\* worker.assign_trial.remote(ts): the worker receives a copy of ts and the
\* caller gets a handle that resolves later; base is the iteration the trial
\* was assigned at.
assign_trial(fs, w, ts) ==
    [ fs EXCEPT ![ts.id] = [ state |-> "running", worker |-> w, val |-> ts,
                             base |-> ts.iteration ] ]

\* The metric a worker reports for trial i after it iterations.
ReportedAccuracy(i, it) == 10 * it + i

\* The iteration at which the trial ts stops: its own stop_iteration, within
\* the per-trial budget of the configuration.
StopAt(ts) == Min(ts.stop_iteration, STOP_ITERATION)

\* The iterations a worker may have reached with the trial ts, assigned at
\* iteration base: it never lowers the iteration and advances by at most one
\* phase per assignment.
Reachable(ts, base) == ts.iteration .. Min(base + PHASE_ITERATION, StopAt(ts))

\* The state of trial ts as the worker w holds it at iteration it.
Trained(w, ts, it, status) ==
    [ ts EXCEPT !.iteration = it, !.phase = it \div PHASE_ITERATION,
                !.accuracy = ReportedAccuracy(ts.id, it),
                !.status = status, !.checkpoint = ts.id,
                !.worker_id = w, !.worker_type = get_worker_type(w) ]

\* Results a worker may return for the trial it holds as ts, assigned at
\* iteration base: TERMINATE exactly when the trial has reached the iteration
\* it stops at.  A rejected assignment (collision) returns the state as
\* received, status PENDING.
WorkerResults(w, ts, base, mayMutate) ==
    LET outcomes ==
            { x \in Reachable(ts, base) \X {"TERMINATE", "PAUSE", "NEED_MUTATION"} :
                /\ (x[2] = "TERMINATE") <=> (x[1] = StopAt(ts))
                /\ (x[2] = "NEED_MUTATION") => mayMutate }
    IN  { Trained(w, ts, x[1], x[2]) : x \in outcomes }
            \cup (IF ts.status = "PENDING" THEN { ts } ELSE { })

\* States a worker may report to Tuner.update_trial_result for the trial it
\* holds as ts: the trial as trained so far, status RUNNING.
WorkerProgress(w, ts, base) ==
    { Trained(w, ts, it, "RUNNING") : it \in Reachable(ts, base) }

\* ------------------------------------------------- TrialPhase, TrialResult

\* min(t.iteration for t in trials), trials non-empty.
RECURSIVE MinIteration(_)
MinIteration(s) ==
    IF Len(s) = 1 THEN s[1].iteration
    ELSE Min(Head(s).iteration, MinIteration(Tail(s)))

\* TrialPhase.update_phase(trials): the phase of the population's minimum
\* iteration, capped at the last phase; no change on an empty population.
TrialPhase_update_phase(old, trials) ==
    IF trials = << >> THEN old
    ELSE Min(MinIteration(trials) \div PHASE_ITERATION,
             STOP_ITERATION \div PHASE_ITERATION)

\* TrialResult.get_trial_progress(): the ledger's values, in insertion order.
get_trial_progress(ledger) == [ k \in 1..Cardinality(DOMAIN ledger) |-> ledger[k - 1] ]

\* TrialResult.record_trial_progress(ts): ledger[ts.id] = ts.
record_trial_progress(ledger, ts) == [ ledger EXCEPT ![ts.id] = ts ]

\* history_best before any result was reported: <<accuracy, trial id>>.
NoBest == << 0, -1 >>

\* TrialResult.update_trial_result(ts): writes ts; a ts.accuracy above
\* history_best's replaces history_best.
update_trial_result(ledger, best, ts) ==
    [ ledger |-> [ ledger EXCEPT ![ts.id] = ts ],
      history_best |-> IF ts.accuracy > best[1]
                       THEN << ts.accuracy, ts.id >> ELSE best ]

\* sorted(values, key=accuracy): stable insertion sort, ascending.
RECURSIVE InsertByAccuracy(_, _)
InsertByAccuracy(s, x) ==
    IF s = << >> THEN << x >>
    ELSE IF x.accuracy < Head(s).accuracy THEN << x >> \o s
    ELSE << Head(s) >> \o InsertByAccuracy(Tail(s), x)

RECURSIVE SortByAccuracy(_)
SortByAccuracy(s) ==
    IF s = << >> THEN << >>
    ELSE InsertByAccuracy(SortByAccuracy(SubSeq(s, 1, Len(s) - 1)), s[Len(s)])

\* TrialResult.get_quantile(ratio), ratio = num/den: k = floor(N * ratio);
\* (values[:k], values[N-k:]) of the values sorted by accuracy; with k = 0 the
\* upper list is the whole sorted list.
get_quantile(ledger, num, den) ==
    LET values == SortByAccuracy(get_trial_progress(ledger))
        n == Len(values)
        k == (n * num) \div den
    IN  [ lower |-> SubSeq(values, 1, k),
          upper |-> IF k = 0 THEN values ELSE SubSeq(values, n - k + 1, n) ]

\* ------------------------------------------------------------------ Tuner

\* Tuner.get_quantile_trial(ratio = 0.25)
get_quantile_trial(ledger) == get_quantile(ledger, 25, 100)

\* The perturbation with its two factors exchanged.
PerturbSwapped(hp) ==
    [ hp EXCEPT !.lr = (hp.lr * 12) \div 10, !.momentum = (hp.momentum * 8) \div 10 ]

\* hyperparameter.lr *= 0.8 ; hyperparameter.momentum *= 1.2
Perturb(hp) ==
    [ hp EXCEPT !.lr = (hp.lr * 8) \div 10, !.momentum = (hp.momentum * 12) \div 10 ]

\* Ids random.choice(upper_quantile) may return.
Donors(ledger) == { t.id : t \in Range(get_quantile_trial(ledger).upper) }

\* A mutation that clones the donor's progress along with its checkpoint.
mutationClone(ledger, trial_state, donor) ==
    LET chose_trial == ledger[donor]
        hyperparameter == Perturb(chose_trial.hyperparameter)
    IN  [ ledger |-> [ ledger EXCEPT ![donor].hyperparameter = hyperparameter ],
          trial_state |-> [ trial_state EXCEPT
                              !.hyperparameter = hyperparameter,
                              !.checkpoint = chose_trial.checkpoint,
                              !.iteration = chose_trial.iteration ] ]

\* A mutation that restarts the mutated trial from iteration 0.
mutationRestart(ledger, trial_state, donor) ==
    LET chose_trial == ledger[donor]
        hyperparameter == Perturb(chose_trial.hyperparameter)
    IN  [ ledger |-> [ ledger EXCEPT ![donor].hyperparameter = hyperparameter ],
          trial_state |-> [ trial_state EXCEPT
                              !.hyperparameter = hyperparameter,
                              !.checkpoint = chose_trial.checkpoint,
                              !.iteration = 0 ] ]

\* Tuner.mutation(trial_state) with chose_trial the ledger entry of donor.
\* The perturbation is applied to the donor's own hyperparameter object, which
\* the returned state then refers to: the donor's ledger entry changes too.
mutation(ledger, trial_state, donor) ==
    LET chose_trial == ledger[donor]
        hyperparameter == Perturb(chose_trial.hyperparameter)
    IN  [ ledger |-> [ ledger EXCEPT ![donor].hyperparameter = hyperparameter ],
          trial_state |-> [ trial_state EXCEPT
                              !.hyperparameter = hyperparameter,
                              !.checkpoint = chose_trial.checkpoint ] ]

\* ------------------------------------------------------------- strategies

\* Positions in calls of the calls sent to a worker and not answered yet.
Awaited(calls) == { k \in 1..Len(calls) : calls[k].status = "SENT" }

\* Positions in calls of the calls whose handle resolved to an error.
Failed(calls) == { k \in 1..Len(calls) : calls[k].status = "ERROR" }

\* [worker.op.remote() for worker in ws] has run: calls holds the call to
\* every worker of ws.
Asked(calls, op, ws) ==
    \A j \in 1..Len(ws) :
        \E k \in 1..Len(calls) : calls[k].op = op /\ calls[k].to = ws[j]

\* What ray.get returned for the call of op to worker w.
Answer(calls, op, w) ==
    calls[CHOOSE k \in 1..Len(calls) : calls[k].op = op /\ calls[k].to = w].n

\* [worker.get_available_slots.remote() for worker in ws], as log entries.
SlotQueries(ws) ==
    [ k \in 1..Len(ws) |-> Event("get_available_slots", ws[k], -1, -1, "SENT") ]

\* [worker.get_active_trials.remote() for worker in ws], as log entries.
ActiveQueries(ws) ==
    [ k \in 1..Len(ws) |-> Event("get_active_trials", ws[k], -1, -1, "SENT") ]

\* [w for w, slots in zip(ws, ray.get(available_futures)) if slots]
AvailableWorkers(calls, ws) ==
    SelectSeq(ws, LAMBDA w : Answer(calls, "get_available_slots", w) # 0)

\* A choice that takes the first available worker whatever its free slots.
FirstAvailable(calls, ws) == ws[1]

\* max(available, key=slots)[0]: the first worker with the most free slots.
RECURSIVE MaxBySlots(_, _)
MaxBySlots(calls, ws) ==
    IF Len(ws) = 1 THEN ws[1]
    ELSE LET r == MaxBySlots(calls, Tail(ws))
         IN  IF Answer(calls, "get_available_slots", r)
                   > Answer(calls, "get_available_slots", Head(ws))
             THEN r ELSE Head(ws)

\* Where a strategy call stands: the pending list, the handle it returns
\* (NoFuture for None), the object store, the calls it has issued, and at,
\* the ray.get it waits in ("return" once it has returned).
Outcome(pending, future, fs, calls, at) ==
    [ pending |-> pending, future |-> future, futures |-> fs, log |-> calls,
      at |-> at ]

\* A dispatch that leaves the trial on the pending list.
DispatchKeepPending(pending, fs, w, ts, calls) ==
    Outcome(pending, ts.id, assign_trial(fs, w, ts),
            calls \o << Event("assign_trial", w, ts.id, ts.iteration, ts.status) >>,
            "return")

\* pending.remove(ts); future = worker.assign_trial.remote(ts); return future
Dispatch(pending, fs, w, ts, calls) ==
    Outcome(Remove(pending, ts), ts.id, assign_trial(fs, w, ts),
            calls \o << Event("assign_trial", w, ts.id, ts.iteration, ts.status) >>,
            "return")

\* A phase gate that admits only trials strictly behind the current phase.
AvailableTrialsBehind(pending, phase) ==
    SelectSeq(pending, LAMBDA t : t.phase < phase)

\* [trial for trial in pending if trial.phase <= trial_phase.current_phase]
AvailableTrials(pending, phase) ==
    SelectSeq(pending, LAMBDA t : t.phase <= phase)

\* round_robin_strategy with the calls it has issued so far and their
\* answers: it runs up to the next ray.get whose calls are not yet sent, or
\* to its return.
round_robin_strategy(pending, gpus, cpus, phase, fs, calls) ==
    IF pending = << >> THEN Outcome(pending, NoFuture, fs, calls, "return")
    ELSE IF ~Asked(calls, "get_available_slots", cpus)
    THEN Outcome(pending, NoFuture, fs, calls \o SlotQueries(cpus), "cpu_slots")
    ELSE
    LET available_cpu_workers == AvailableWorkers(calls, cpus)
        available_trials == AvailableTrials(pending, phase)
        available_gpu_workers == AvailableWorkers(calls, gpus)
    IN  IF available_cpu_workers # << >> /\ available_trials # << >>
        THEN Dispatch(pending, fs, Head(available_cpu_workers),
                      MaxByIteration(available_trials), calls)
        ELSE IF ~Asked(calls, "get_available_slots", gpus)
        THEN Outcome(pending, NoFuture, fs, calls \o SlotQueries(gpus), "gpu_slots")
        ELSE IF available_gpu_workers # << >>
        THEN Dispatch(pending, fs, MaxBySlots(calls, available_gpu_workers),
                      MinByIteration(pending), calls)
        ELSE Outcome(pending, NoFuture, fs, calls, "return")

\* (worker, min(active, key=iteration)) for every CPU worker that answered
\* get_active_trials with a non-empty list.
RunningCpuWorkers(snapshots, cpus) ==
    LET busy == SelectSeq(cpus, LAMBDA w : Len(snapshots[w]) > 0)
    IN  [ k \in 1..Len(busy) |->
            [ worker |-> busy[k], trial |-> MinByIteration(snapshots[busy[k]]) ] ]

\* A victim choice that takes the first running CPU worker whatever the
\* iteration of its trial.
FirstVictim(s) == s[1]

\* min(running_cpu_workers, key=trial.iteration): the first smallest.
RECURSIVE MinVictim(_)
MinVictim(s) ==
    IF Len(s) = 1 THEN s[1]
    ELSE LET r == MinVictim(Tail(s))
         IN  IF r.trial.iteration < Head(s).trial.iteration THEN r ELSE Head(s)

\* worker.send_signal.remote(trial_state.id), as a log entry.
Signal(victim) ==
    Event("send_signal", victim.worker, victim.trial.id, victim.trial.iteration,
          "SENT")

\* gpu_first_strategy with the calls it has issued so far and their answers
\* (snapshots: the lists get_active_trials returned): it runs up to the next
\* ray.get whose calls are not yet sent, or to its return.
gpu_first_strategy(pending, gpus, cpus, fs, calls, snapshots) ==
    IF ~Asked(calls, "get_available_slots", gpus)
    THEN Outcome(pending, NoFuture, fs, calls \o SlotQueries(gpus), "gpu_first_slots")
    ELSE
    LET available_gpu_workers == AvailableWorkers(calls, gpus)
        running_cpu_workers == RunningCpuWorkers(snapshots, cpus)
        victim == MinVictim(running_cpu_workers)
    IN  IF available_gpu_workers = << >>
        THEN Outcome(pending, NoFuture, fs, calls, "return")
        ELSE IF Len(pending) # 0
        THEN Dispatch(pending, fs, MaxBySlots(calls, available_gpu_workers),
                      MinByIteration(pending), calls)
        ELSE IF ~Asked(calls, "get_active_trials", cpus)
        THEN Outcome(pending, NoFuture, fs, calls \o ActiveQueries(cpus),
                     "get_active_trials")
        ELSE IF running_cpu_workers # << >>
                  /\ ~Asked(calls, "send_signal", << victim.worker >>)
        THEN Outcome(pending, NoFuture, fs, calls \o << Signal(victim) >>,
                     "send_signal")
        ELSE Outcome(pending, NoFuture, fs, calls, "return")

\* -------------------------------------------------------- TrialScheduler

\* An update_phase that skips the first worker of the list.
update_phase_skip_first(old, progress, ws) ==
    LET new == TrialPhase_update_phase(old, progress)
        ask == << Event("get_trial_progress", NoWorker, -1, old, "") >>
        rest == IF ws = << >> THEN ws ELSE Tail(ws)
    IN  [ phase |-> new,
          changed |-> old # new,
          log |-> IF old # new
                  THEN ask \o [ k \in 1..Len(rest) |->
                                  Event("update_phase", rest[k], -1, new, "SENT") ]
                  ELSE ask ]

\* TrialScheduler.update_phase from the return of ray.get on: recompute the
\* phase from progress, the list the Tuner answered, and, when it changed,
\* send it to every worker; the scheduler then waits for all of them.
update_phase(old, progress, ws) ==
    LET new == TrialPhase_update_phase(old, progress)
        ask == << Event("get_trial_progress", NoWorker, -1, old, "") >>
    IN  [ phase |-> new,
          changed |-> old # new,
          log |-> IF old # new
                  THEN ask \o [ k \in 1..Len(ws) |->
                                  Event("update_phase", ws[k], -1, new, "SENT") ]
                  ELSE ask ]

\* The strategy test with the comparison inverted.
UseRoundRobinInverted(completed, n, gpus) == Len(completed) >= n - Len(gpus) * 3

\* The strategy test of assign_trial_to_worker.
UseRoundRobin(completed, n, gpus) == Len(completed) <= n - Len(gpus) * 3

\* The handle assign_trial_to_worker holds after the strategy call: the value
\* round_robin_strategy returns; the value of gpu_first_strategy is discarded.
StrategyFuture(roundRobin, out) == IF roundRobin THEN out.future ELSE NoFuture

\* if future is not None: self.running_futures.append(future)
TrackFuture(running, future) ==
    IF future # NoFuture THEN Append(running, future) ELSE running

\* A routing that leaves the worker fields as the worker returned them.
UnassignSkipped(ts) == ts

\* trial_state.worker_id = -1 ; trial_state.worker_type = None
Unassign(ts) == [ ts EXCEPT !.worker_id = NoWorker, !.worker_type = "NONE" ]

\* A re-queue that keeps the status the worker returned.
RequeueKeepStatus(ts) == ts

\* trial_state.status = TrialStatus.PENDING
Requeue(ts) == [ ts EXCEPT !.status = "PENDING" ]

\* A status test that also sends collisions to the Tuner.
NeedsMutationOrCollision(status) == status \in {"NEED_MUTATION", "PENDING"}

\* elif trial_state.status == TrialStatus.NEED_MUTATION
NeedsMutation(status) == status = "NEED_MUTATION"

\* A queued object that is also the donor's ledger entry sees the donor's
\* hyperparameter change.
SharePerturbation(pending, isShared, donor, ledger) ==
    [ k \in 1..Len(pending) |->
        IF isShared /\ pending[k].id = donor
        THEN [ pending[k] EXCEPT !.hyperparameter = ledger[donor].hyperparameter ]
        ELSE pending[k] ]

\* The scheduler-side state a completion is routed into: the queues, the
\* snapshots sent to Tuner.record_trial_progress, and the calls issued.
Routed(pending, completed, sent, calls) ==
    [ pending |-> pending, completed |-> completed, sent |-> sent, log |-> calls ]

\* One pass of the loop of handle_done_futures, for the handle h (state
\* f of the object store); for a NEED_MUTATION result, answer is the state
\* Tuner.mutation returned and donor the trial it drew.
HandleDoneFuture(pending, completed, f, h, donor, answer) ==
    IF f.state = "failed"
    THEN \* ray.get raises; the except clause logs and goes on
         Routed(pending, completed, << >>,
                << Event("ray.get", f.worker, h, -1, "ERROR") >>)
    ELSE
    LET got == f.val
        got_call == << Event("ray.get", f.worker, h, got.iteration, got.status) >>
        trial_state ==
            CASE got.status = "TERMINATE" -> Unassign(got)
              [] NeedsMutation(got.status) -> Unassign(Requeue(answer))
              [] got.status = "PAUSE" -> Unassign(Requeue(got))
              [] OTHER -> Unassign(got)
        toTuner == got.status # "TERMINATE" /\ NeedsMutation(got.status)
        calls == got_call
                 \o (IF toTuner
                     THEN << Event("mutation", NoWorker, got.id, donor, got.status) >>
                     ELSE NoEvent)
                 \o << Event("record_trial_progress", NoWorker, trial_state.id,
                             trial_state.iteration, trial_state.status) >>
    IN  Routed(IF got.status \in {"NEED_MUTATION", "PAUSE", "PENDING"}
               THEN Append(pending, trial_state) ELSE pending,
               IF got.status = "TERMINATE"
               THEN Append(completed, trial_state) ELSE completed,
               << trial_state >>,
               calls)

\* ------------------------------------------------------------ construction

\* The two filters of TrialScheduler.__init__ over the worker list: each asks
\* every worker for its type and waits for the answer, GPU filter first.
ConstructorQueries(ws, types) ==
    [ k \in 1..(2 * Len(ws)) |->
        Event("get_worker_type", ws[((k - 1) % Len(ws)) + 1], -1, -1,
              types[ws[((k - 1) % Len(ws)) + 1]]) ]

\* active_trials before any CPU worker has answered get_active_trials.
NoSnapshots == [ w \in Range(cpu_workers) |-> << >> ]

\* Tuner.__init__ followed by TrialScheduler.__init__, with a
\* generate_all_workers that takes the Tuner's call and returns worker actor
\* handles: the worker list is kept as given and filtered by type, the
\* population is queued, the same objects are recorded in the ledger, nothing
\* runs.
InitSchedulerIn(scenarios) ==
    /\ \E sc \in scenarios :
         /\ trial_state_nums = sc[1]
         /\ workers = [ k \in 1..Len(sc[2]) |-> sc[2][k][1] ]
         /\ worker_types =
              [ w \in { sc[2][k][1] : k \in 1..Len(sc[2]) } |->
                  sc[2][CHOOSE k \in 1..Len(sc[2]) : sc[2][k][1] = w][2] ]
         /\ gpu_slots = sc[3]
         /\ \E draws \in DrawsIn(sc) :
              pending_trial_states = generate_trial_states(sc[1], draws)
    /\ gpu_workers = SelectSeq(workers, LAMBDA w : get_worker_type(w) = "GPU")
    /\ cpu_workers = SelectSeq(workers, LAMBDA w : get_worker_type(w) = "CPU")
    /\ completed_trial_states = << >>
    /\ running_futures = << >>
    /\ current_phase = 0
    /\ trial_progress = [ i \in Ids |-> pending_trial_states[i + 1] ]
    /\ history_best = NoBest
    /\ shared = Ids
    /\ futures = [ i \in Ids |-> NoHandle(i) ]
    /\ worker_phase = [ w \in Range(workers) |-> 0 ]
    /\ pc = "constructed"
    /\ strategy = "none"
    /\ mutations = 0
    /\ reports = 0
    /\ submits = 0
    /\ active_trials = NoSnapshots
    /\ tuner_mailbox = << >>
    /\ tuner_reply = NoReply
    /\ log = ConstructorQueries(workers, worker_types)

\* The constructors in the runs explored by Spec.
InitScheduler == InitSchedulerIn(Scenarios)

\* Tuner.__init__ with the generate_all_workers of src/src/worker.py, which
\* takes no argument: the call raises TypeError, and there is no Tuner, no
\* scheduler and no worker.
ConstructionRaises ==
    /\ trial_state_nums = 0
    /\ workers = << >>
    /\ worker_types = << >>
    /\ gpu_slots = 0
    /\ gpu_workers = << >>
    /\ cpu_workers = << >>
    /\ pending_trial_states = << >>
    /\ completed_trial_states = << >>
    /\ running_futures = << >>
    /\ current_phase = 0
    /\ trial_progress = << >>
    /\ history_best = NoBest
    /\ shared = { }
    /\ futures = << >>
    /\ worker_phase = << >>
    /\ pc = "not_constructed"
    /\ strategy = "none"
    /\ mutations = 0
    /\ reports = 0
    /\ submits = 0
    /\ active_trials = << >>
    /\ tuner_mailbox = << >>
    /\ tuner_reply = NoReply
    /\ log = NoEvent

\* The worker list as the scenario gives it.
Pool == [ k \in 1..Len(workers) |-> << workers[k], get_worker_type(workers[k]) >> ]

\* The scenario of the run.
Scenario == << trial_state_nums, Pool, gpu_slots >>

\* Threads of a Tuner actor that answers calls while its run executes.
ThreadedTuner == 2

\* The Tuner's constructor in an actor that answers calls while its run
\* executes.
Init ==
    /\ InitScheduler \/ ConstructionRaises
    /\ tuner_threads = ThreadedTuner

\* ---------------------------------------------------------- the Tuner actor

\* Positions at which Tuner.run holds no thread of the actor: it has not
\* been called yet, it has returned, TrialScheduler.run has raised through
\* it, or there is no Tuner.
RunOver == {"constructed", "returned", "raised", "not_constructed"}

\* Threads of the Tuner actor in use: Tuner.run holds one from its start
\* through TrialScheduler.run and get_workers_logs.
TunerBusyThreads == IF pc \in RunOver THEN 0 ELSE 1

\* The actor takes a call from its mailbox only on a free thread.
TunerCanServe == TunerBusyThreads < tuner_threads

\* The call the Tuner actor takes up next is a call to op.
TunerTakes(op) ==
    /\ tuner_mailbox # << >>
    /\ Head(tuner_mailbox).op = op
    /\ TunerCanServe

\* Positions of run blocked in ray.get on a call to the Tuner.
AwaitingTuner == {"get_trial_progress", "mutation"}

\* The Tuner executes record_trial_progress(ts), which the scheduler sent
\* without waiting for it.
TunerRecords ==
    /\ TunerTakes("record_trial_progress")
    /\ trial_progress' =
          record_trial_progress(trial_progress, Head(tuner_mailbox).args[1])
    /\ tuner_mailbox' = Tail(tuner_mailbox)
    /\ UNCHANGED << pool, tuner_reply, pending_trial_states, completed_trial_states,
                    running_futures, current_phase, history_best, shared,
                    futures, worker_phase, pc, strategy, mutations, reports,
                    submits, active_trials, log >>

\* The Tuner executes update_trial_result(ts), which a worker sent.
TunerUpdatesResult ==
    /\ TunerTakes("update_trial_result")
    /\ LET r == update_trial_result(trial_progress, history_best,
                                    Head(tuner_mailbox).args[1])
       IN  /\ trial_progress' = r.ledger
           /\ history_best' = r.history_best
    /\ tuner_mailbox' = Tail(tuner_mailbox)
    /\ UNCHANGED << pool, tuner_reply, pending_trial_states, completed_trial_states,
                    running_futures, current_phase, shared, futures,
                    worker_phase, pc, strategy, mutations, reports, submits,
                    active_trials, log >>

\* The Tuner executes submit_trial(ts): TrialScheduler has no submit_trial,
\* the call raises AttributeError to its caller and changes nothing.
TunerSubmitTrial ==
    /\ TunerTakes("submit_trial")
    /\ tuner_mailbox' = Tail(tuner_mailbox)
    /\ UNCHANGED << pool, tuner_reply, pending_trial_states, completed_trial_states,
                    running_futures, current_phase, trial_progress,
                    history_best, shared, futures, worker_phase, pc, strategy,
                    mutations, reports, submits, active_trials, log >>

\* Tuner.submit_trial calls the clients of this run make at most.
SubmitBudget == IF Scenario \in SubmittingScenarios THEN MaxSubmits ELSE 0

\* A client of the Tuner actor calls submit_trial with a new trial.
ClientSubmitsTrial ==
    /\ submits < SubmitBudget
    /\ tuner_mailbox' =
          Append(tuner_mailbox,
                 Call("submit_trial",
                      << TrialState(trial_state_nums,
                                    Hyperparameter(HpStep, HpStep, 64)) >>))
    /\ submits' = submits + 1
    /\ UNCHANGED << pool, tuner_reply, pending_trial_states, completed_trial_states,
                    running_futures, current_phase, trial_progress,
                    history_best, shared, futures, worker_phase, pc, strategy,
                    mutations, reports, active_trials, log >>

\* ---------------------------------------------------------------- the loop

\* The Tuner actor takes up the call of run: Tuner.run calls
\* TrialScheduler.run, which comes to its loop test.
TunerRun ==
    /\ pc = "constructed"
    /\ TunerCanServe
    /\ pc' = "loop"
    /\ UNCHANGED << pool, tuner_reply, tuner_mailbox, pending_trial_states,
                    completed_trial_states, running_futures, current_phase,
                    trial_progress, history_best, shared, futures,
                    worker_phase, strategy, mutations, reports, submits,
                    active_trials, log >>

\* update_phase sends get_trial_progress to the Tuner and waits in ray.get.
CallGetTrialProgress ==
    /\ pc = "loop"
    /\ Len(completed_trial_states) < trial_state_nums
    /\ tuner_mailbox' = Append(tuner_mailbox, Call("get_trial_progress", << >>))
    /\ pc' = "get_trial_progress"
    /\ log' = << Event("get_trial_progress", NoWorker, -1, current_phase, "") >>
    /\ UNCHANGED << pool, tuner_reply, pending_trial_states, completed_trial_states,
                    running_futures, current_phase, trial_progress,
                    history_best, shared, futures, worker_phase, strategy,
                    mutations, reports, submits, active_trials >>

\* assign_trial_to_worker once update_phase has returned, with calls the
\* calls of the pass so far: the strategy test and the strategy call, up to
\* the next ray.get the strategy waits in; when the strategy has returned,
\* the handle is tracked and run makes its break test.
assign_trial_to_worker(calls, phase) ==
    LET roundRobin == UseRoundRobin(completed_trial_states, trial_state_nums,
                                    gpu_workers)
        out == IF roundRobin
               THEN round_robin_strategy(pending_trial_states, gpu_workers,
                                         cpu_workers, phase, futures, calls)
               ELSE gpu_first_strategy(pending_trial_states, gpu_workers,
                                       cpu_workers, futures, calls, active_trials)
        running == TrackFuture(running_futures, StrategyFuture(roundRobin, out))
    IN  /\ strategy' = IF roundRobin THEN "round_robin" ELSE "gpu_first"
        /\ pending_trial_states' = out.pending
        /\ futures' = out.futures
        /\ shared' = shared \ { out.future }
        /\ running_futures' = running
        /\ log' = out.log
        /\ active_trials' = IF out.at = "return" THEN NoSnapshots ELSE active_trials
        /\ pc' = IF out.at # "return" THEN out.at
                 ELSE IF running = << >> /\ out.pending = << >> THEN "done"
                 ELSE "wait"

\* The Tuner executes get_trial_progress, after the calls sent to it
\* earlier: the ledger's values of the moment are the answer; run is still
\* in ray.get.
TunerAnswersProgress ==
    /\ TunerTakes("get_trial_progress")
    /\ tuner_reply' = Reply("get_trial_progress", get_trial_progress(trial_progress))
    /\ tuner_mailbox' = Tail(tuner_mailbox)
    /\ UNCHANGED << pool, pending_trial_states, completed_trial_states,
                    running_futures, current_phase, trial_progress,
                    history_best, shared, futures, worker_phase, pc, strategy,
                    mutations, reports, submits, active_trials, log >>

\* ray.get returns the Tuner's answer to update_phase, which sets the phase
\* from it; when the phase changed, update_phase sends it to every worker
\* and waits; otherwise assign_trial_to_worker goes on.
ProgressAnswered ==
    /\ pc = "get_trial_progress"
    /\ tuner_reply.op = "get_trial_progress"
    /\ tuner_reply' = NoReply
    /\ LET up == update_phase(current_phase, tuner_reply.val, workers)
       IN  /\ current_phase' = up.phase
           /\ IF Awaited(up.log) # { }
              THEN /\ pc' = "update_phase"
                   /\ log' = up.log
                   /\ UNCHANGED << pending_trial_states, running_futures,
                                   shared, futures, strategy, active_trials >>
              ELSE assign_trial_to_worker(up.log, up.phase)
    /\ UNCHANGED << pool, tuner_mailbox, completed_trial_states,
                    trial_progress, history_best, worker_phase, mutations,
                    reports, submits >>

\* run waits at the position at, every call it waits for has been answered
\* and none has failed: ray.get returns.
Answered(at) ==
    /\ pc = at
    /\ Awaited(log) = { }
    /\ Failed(log) = { }

\* What the rest of a pass leaves alone.
PassKeeps ==
    << pool, tuner_reply, completed_trial_states, current_phase, trial_progress,
       history_best, worker_phase, mutations, reports, submits, tuner_mailbox >>

\* Every worker has acknowledged update_phase: ray.get(futures) returns
\* and assign_trial_to_worker goes on.
PhaseAcknowledged ==
    /\ Answered("update_phase")
    /\ assign_trial_to_worker(log, current_phase)
    /\ UNCHANGED PassKeeps

\* round_robin_strategy has the answers of the CPU workers.
CpuSlotsAnswered ==
    /\ Answered("cpu_slots")
    /\ assign_trial_to_worker(log, current_phase)
    /\ UNCHANGED PassKeeps

\* round_robin_strategy has the answers of the GPU workers.
GpuSlotsAnswered ==
    /\ Answered("gpu_slots")
    /\ assign_trial_to_worker(log, current_phase)
    /\ UNCHANGED PassKeeps

\* gpu_first_strategy has the answers of the GPU workers.
GpuFirstSlotsAnswered ==
    /\ Answered("gpu_first_slots")
    /\ assign_trial_to_worker(log, current_phase)
    /\ UNCHANGED PassKeeps

\* gpu_first_strategy has the active trials of the CPU workers.
ActiveTrialsAnswered ==
    /\ Answered("get_active_trials")
    /\ assign_trial_to_worker(log, current_phase)
    /\ UNCHANGED PassKeeps

\* The worker has taken the preempt signal: gpu_first_strategy returns.
SignalDelivered ==
    /\ Answered("send_signal")
    /\ assign_trial_to_worker(log, current_phase)
    /\ UNCHANGED PassKeeps

\* The loop test of run fails: every trial is in completed_trial_states.
LoopExit ==
    /\ pc = "loop"
    /\ Len(completed_trial_states) >= trial_state_nums
    /\ pc' = "done"
    /\ log' = NoEvent
    /\ UNCHANGED << pool, tuner_reply, tuner_mailbox,
                    pending_trial_states, completed_trial_states, running_futures,
                    current_phase, trial_progress, history_best, shared, futures,
                    worker_phase, strategy, mutations, reports, submits,
                    active_trials >>

\* Handles of running_futures that have resolved.
Ready == { h \in Range(running_futures) : futures[h].state \in {"ready", "failed"} }

\* ray.wait(running_futures, timeout=0.5) returns no handle.
WaitTimeout ==
    /\ pc = "wait"
    /\ Ready = { }
    /\ pc' = "loop"
    /\ log' = NoEvent
    /\ UNCHANGED << pool, tuner_reply, tuner_mailbox,
                    pending_trial_states, completed_trial_states, running_futures,
                    current_phase, trial_progress, history_best, shared, futures,
                    worker_phase, strategy, mutations, reports, submits,
                    active_trials >>

\* handle_done_futures for the resolved handle h, which ray.wait took off
\* running_futures, with donor and answer what Tuner.mutation drew and
\* returned for it.  The snapshot goes to record_trial_progress without the
\* scheduler waiting.
RouteHandle(h, donor, answer) ==
    LET r == HandleDoneFuture(pending_trial_states, completed_trial_states,
                              futures[h], h, donor, answer)
    IN  /\ running_futures' = Remove(running_futures, h)
        /\ futures' = [ futures EXCEPT ![h] = NoHandle(h) ]
        /\ pending_trial_states' = r.pending
        /\ completed_trial_states' = r.completed
        /\ tuner_mailbox' =
              tuner_mailbox \o [ k \in 1..Len(r.sent) |->
                                   Call("record_trial_progress", << r.sent[k] >>) ]
        /\ log' = r.log

\* ray.wait returns one resolved handle (num_returns = 1) whose result needs
\* no call the scheduler waits for; handle_done_futures routes it.
WaitAndHandleLocal ==
    /\ pc = "wait"
    /\ \E h \in Ready :
         /\ ~(futures[h].state = "ready" /\ NeedsMutation(futures[h].val.status))
         /\ RouteHandle(h, NoDonor, futures[h].val)
    /\ pc' = "loop"
    /\ UNCHANGED << pool, tuner_reply, current_phase, trial_progress,
                    history_best, shared, worker_phase, strategy, mutations,
                    reports, submits, active_trials >>

\* ray.wait returns a handle resolved to NEED_MUTATION; handle_done_futures
\* sends mutation to the Tuner and waits in ray.get.
CallMutation ==
    /\ pc = "wait"
    /\ \E h \in Ready :
         /\ futures[h].state = "ready" /\ NeedsMutation(futures[h].val.status)
         /\ running_futures' = Remove(running_futures, h)
         /\ tuner_mailbox' =
               Append(tuner_mailbox, Call("mutation", << futures[h].val >>))
         /\ log' = << Event("ray.get", futures[h].worker, h,
                            futures[h].val.iteration, futures[h].val.status),
                      Event("mutation", NoWorker, h, NoDonor, futures[h].val.status) >>
    /\ pc' = "mutation"
    /\ UNCHANGED << pool, tuner_reply, pending_trial_states,
                    completed_trial_states, current_phase, trial_progress,
                    history_best, shared, futures, worker_phase, strategy,
                    mutations, reports, submits, active_trials >>

\* The call of the routing under way with the donor the Tuner drew for it.
DonorDrawn(calls, donor) ==
    [ k \in 1..Len(calls) |->
        IF calls[k].op = "mutation" THEN [ calls[k] EXCEPT !.n = donor ]
        ELSE calls[k] ]

\* The Tuner executes mutation, after the calls sent to it earlier: it
\* draws a donor, perturbs the donor's hyperparameter in the ledger and
\* answers the mutated state; run is still in ray.get.
TunerAnswersMutation ==
    /\ TunerTakes("mutation")
    /\ \E donor \in Donors(trial_progress) :
         LET mutated == mutation(trial_progress, Head(tuner_mailbox).args[1], donor)
         IN  /\ trial_progress' = mutated.ledger
             /\ pending_trial_states' =
                   SharePerturbation(pending_trial_states, donor \in shared,
                                     donor, mutated.ledger)
             /\ tuner_reply' = Reply("mutation", << mutated.trial_state >>)
             /\ log' = DonorDrawn(log, donor)
    /\ tuner_mailbox' = Tail(tuner_mailbox)
    /\ UNCHANGED << pool, completed_trial_states, running_futures,
                    current_phase, history_best, shared, futures, worker_phase,
                    pc, strategy, mutations, reports, submits, active_trials >>

\* The donor the Tuner drew for the mutation call of the routing under way.
Donor(calls) == calls[CHOOSE k \in 1..Len(calls) : calls[k].op = "mutation"].n

\* ray.get returns the Tuner's answer to handle_done_futures, which queues
\* the mutated state and sends its snapshot to record_trial_progress.
MutationAnswered ==
    /\ pc = "mutation"
    /\ tuner_reply.op = "mutation"
    /\ tuner_reply' = NoReply
    /\ RouteHandle(log[1].id, Donor(log), tuner_reply.val[1])
    /\ pc' = "loop"
    /\ UNCHANGED << pool, current_phase, trial_progress, history_best, shared,
                    worker_phase, strategy, mutations, reports, submits,
                    active_trials >>

\* TrialScheduler.run has returned to Tuner.run, which calls
\* get_workers_logs: it asks the first worker for its log file and waits.
GetWorkersLogs ==
    /\ pc = "done"
    /\ IF workers = << >>
       THEN pc' = "returned" /\ log' = NoEvent
       ELSE /\ pc' = "get_log_file"
            /\ log' = << Event("get_log_file", workers[1], -1, -1, "SENT") >>
    /\ UNCHANGED << pool, tuner_reply, tuner_mailbox,
                    pending_trial_states, completed_trial_states, running_futures,
                    current_phase, trial_progress, history_best, shared, futures,
                    worker_phase, strategy, mutations, reports, submits,
                    active_trials >>

\* get_workers_logs has a worker's log file: it writes the file and asks the
\* next worker; after the last worker Tuner.run returns.
LogFileAnswered ==
    /\ pc = "get_log_file"
    /\ Awaited(log) = { }
    /\ IF Len(log) < Len(workers)
       THEN /\ pc' = "get_log_file"
            /\ log' = Append(log, Event("get_log_file", workers[Len(log) + 1],
                                        -1, -1, "SENT"))
       ELSE pc' = "returned" /\ log' = log
    /\ UNCHANGED << pool, tuner_reply, tuner_mailbox,
                    pending_trial_states, completed_trial_states, running_futures,
                    current_phase, trial_progress, history_best, shared, futures,
                    worker_phase, strategy, mutations, reports, submits,
                    active_trials >>

\* ---------------------------------------------------------------- workers

\* What a worker's answer to a call of the scheduler leaves alone.
WorkerAnswerFrame ==
    UNCHANGED << pool, tuner_reply, tuner_mailbox, pending_trial_states,
                 completed_trial_states, running_futures, current_phase,
                 trial_progress, history_best, shared, futures, pc, strategy,
                 mutations, reports, submits >>

\* A worker executes update_phase(phase) and acknowledges.
WorkerUpdatesPhase ==
    /\ \E k \in Awaited(log) :
         /\ log[k].op = "update_phase"
         /\ worker_phase' = [ worker_phase EXCEPT ![log[k].to] = log[k].n ]
         /\ log' = [ log EXCEPT ![k].status = "" ]
    /\ UNCHANGED active_trials
    /\ WorkerAnswerFrame

\* A worker answers get_available_slots with its free slots of the moment.
WorkerAnswersSlots ==
    /\ \E k \in Awaited(log) :
         /\ log[k].op = "get_available_slots"
         /\ log' = [ log EXCEPT ![k].n = get_available_slots(futures, log[k].to),
                                ![k].status = "" ]
    /\ UNCHANGED << worker_phase, active_trials >>
    /\ WorkerAnswerFrame

\* A CPU worker answers get_active_trials with a snapshot of the trials it
\* is training.
WorkerAnswersActiveTrials ==
    /\ \E k \in Awaited(log) :
         /\ log[k].op = "get_active_trials"
         /\ active_trials' =
               [ active_trials EXCEPT ![log[k].to] = get_active_trials(futures, log[k].to) ]
         /\ log' = [ log EXCEPT ![k].n = Len(get_active_trials(futures, log[k].to)),
                                ![k].status = "" ]
    /\ UNCHANGED worker_phase
    /\ WorkerAnswerFrame

\* A worker takes send_signal(trial_id) and acknowledges; the trial, if the
\* worker still trains it, returns with PAUSE later (WorkerReturn).
WorkerTakesSignal ==
    /\ \E k \in Awaited(log) :
         /\ log[k].op = "send_signal"
         /\ log' = [ log EXCEPT ![k].status = "" ]
    /\ UNCHANGED << worker_phase, active_trials >>
    /\ WorkerAnswerFrame

\* A worker answers get_log_file.
WorkerAnswersLogFile ==
    /\ \E k \in Awaited(log) :
         /\ log[k].op = "get_log_file"
         /\ log' = [ log EXCEPT ![k].status = "" ]
    /\ UNCHANGED << worker_phase, active_trials >>
    /\ WorkerAnswerFrame

\* Mutation requests the workers of this run make at most.
MutationBudget == IF Scenario \in MutatingScenarios THEN MaxMutations ELSE 0

\* Reports the workers of this run make at most.
ReportBudget == IF Scenario \in ReportingScenarios THEN MaxReports ELSE 0

\* A worker finishes the unit of work of a trial it was assigned: the
\* handle resolves with the TrialState the worker returns.
WorkerReturn ==
    /\ \E i \in Ids :
         /\ futures[i].state = "running"
         /\ \E r \in WorkerResults(futures[i].worker, futures[i].val,
                                   futures[i].base, mutations < MutationBudget) :
              /\ futures' = [ futures EXCEPT ![i].state = "ready", ![i].val = r ]
              /\ mutations' = IF r.status = "NEED_MUTATION"
                              THEN mutations + 1 ELSE mutations
    /\ UNCHANGED << pool, tuner_reply, tuner_mailbox,
                    pending_trial_states, completed_trial_states, running_futures,
                    current_phase, trial_progress, history_best, shared,
                    worker_phase, pc, strategy, reports, submits, active_trials,
                    log >>

\* A worker training a trial sends the trial's state to
\* Tuner.update_trial_result and goes on training.
WorkerReports ==
    /\ reports < ReportBudget
    /\ \E i \in Ids :
         /\ futures[i].state = "running"
         /\ \E r \in WorkerProgress(futures[i].worker, futures[i].val,
                                    futures[i].base) :
              /\ futures' = [ futures EXCEPT ![i].val = r ]
              /\ tuner_mailbox' =
                    Append(tuner_mailbox, Call("update_trial_result", << r >>))
    /\ reports' = reports + 1
    /\ UNCHANGED << pool, tuner_reply, pending_trial_states, completed_trial_states,
                    running_futures, current_phase, trial_progress, history_best,
                    shared, worker_phase, pc, strategy, mutations, submits,
                    active_trials, log >>

Next ==
    \/ TunerRun
    \/ CallGetTrialProgress
    \/ TunerAnswersProgress
    \/ ProgressAnswered
    \/ PhaseAcknowledged
    \/ CpuSlotsAnswered
    \/ GpuSlotsAnswered
    \/ GpuFirstSlotsAnswered
    \/ ActiveTrialsAnswered
    \/ SignalDelivered
    \/ LoopExit
    \/ WaitTimeout
    \/ WaitAndHandleLocal
    \/ CallMutation
    \/ TunerAnswersMutation
    \/ MutationAnswered
    \/ GetWorkersLogs
    \/ LogFileAnswered
    \/ TunerRecords
    \/ TunerUpdatesResult
    \/ TunerSubmitTrial
    \/ ClientSubmitsTrial
    \/ WorkerUpdatesPhase
    \/ WorkerAnswersSlots
    \/ WorkerAnswersActiveTrials
    \/ WorkerTakesSignal
    \/ WorkerAnswersLogFile
    \/ WorkerReturn
    \/ WorkerReports

Spec == Init /\ [][Next]_vars

\* Positions of run after its loop: TrialScheduler.run has returned.
LeftLoop == {"done", "get_log_file", "returned"}

\* What run announces once it has left its loop: print_iteration_count and
\* the closing log line "all trials finished training", whatever the size of
\* completed_trial_states; nothing is announced while the loop runs or when
\* an exception ended run.
RunReport == IF pc \in LeftLoop THEN "all_trials_finished" ELSE "none"

\* ------------------------------------------------------------ worker faults

\* The runs in which workers fail.
FaultScenarios == { sc \in Scenarios : sc[1] <= 2 }

\* The workers of this run may fail.
FaultyWorkers == Scenario \in FaultScenarios

\* A Tuner has been constructed.
Constructed == pc # "not_constructed"

\* The Tuner's constructor: no worker has failed yet.
InitFaults == Init

\* A worker's assign_trial task raises: the handle resolves to an error.
WorkerFault ==
    /\ FaultyWorkers
    /\ \E i \in Ids :
         /\ futures[i].state = "running"
         /\ futures' = [ futures EXCEPT ![i].state = "failed" ]
    /\ UNCHANGED << pool, tuner_reply, tuner_mailbox,
                    pending_trial_states, completed_trial_states, running_futures,
                    current_phase, trial_progress, history_best, shared,
                    worker_phase, pc, strategy, mutations, reports, submits,
                    active_trials, log >>

\* A worker returns the trial it was assigned with status RUNNING.
WorkerReturnsRunning ==
    /\ FaultyWorkers
    /\ \E i \in Ids :
         /\ futures[i].state = "running"
         /\ futures' = [ futures EXCEPT
                           ![i].state = "ready",
                           ![i].val.status = "RUNNING",
                           ![i].val.worker_id = futures[i].worker,
                           ![i].val.worker_type = get_worker_type(futures[i].worker) ]
    /\ UNCHANGED << pool, tuner_reply, tuner_mailbox,
                    pending_trial_states, completed_trial_states, running_futures,
                    current_phase, trial_progress, history_best, shared,
                    worker_phase, pc, strategy, mutations, reports, submits,
                    active_trials, log >>

\* A worker does not answer get_available_slots: the handle of the query
\* resolves to an error.
WorkerFailsSlots ==
    /\ FaultyWorkers
    /\ \E k \in Awaited(log) :
         /\ log[k].op = "get_available_slots"
         /\ log' = [ log EXCEPT ![k].status = "ERROR" ]
    /\ UNCHANGED << worker_phase, active_trials >>
    /\ WorkerAnswerFrame

\* Positions of run waiting in ray.get(available_futures).
SlotPositions == {"cpu_slots", "gpu_slots", "gpu_first_slots"}

\* A get_available_slots query of the list has resolved to an error:
\* ray.get(available_futures) raises in the strategy, whether or not the
\* other workers have answered, and neither the strategy,
\* assign_trial_to_worker nor run catches it.
SlotQueryFails ==
    /\ pc \in SlotPositions
    /\ Failed(log) # { }
    /\ pc' = "raised"
    /\ UNCHANGED << pool, tuner_reply, tuner_mailbox, pending_trial_states,
                    completed_trial_states, running_futures, current_phase,
                    trial_progress, history_best, shared, futures,
                    worker_phase, strategy, mutations, reports, submits,
                    active_trials, log >>

NextFaults ==
    \/ Next
    \/ WorkerFault
    \/ WorkerReturnsRunning
    \/ WorkerFailsSlots
    \/ SlotQueryFails

SpecFaults == InitFaults /\ [][NextFaults]_vars

\* ------------------------------------------------- the Tuner actor's threads

\* Threads of a Tuner actor that executes one call at a time.
SerialTuner == 1

\* The runs explored with either Tuner actor.
ActorScenarios == Scenarios

\* The Tuner's constructor in an actor created with either concurrency.
InitActor ==
    /\ InitScheduler \/ ConstructionRaises
    /\ Constructed => Scenario \in ActorScenarios
    /\ tuner_threads \in { SerialTuner, ThreadedTuner }

SpecActor == InitActor /\ [][Next]_vars

\* ------------------------------------------------------------- preemption

\* The Tuner's constructor in the runs explored for preemption.
InitPreempt ==
    /\ InitSchedulerIn(PreemptionScenarios) \/ ConstructionRaises
    /\ tuner_threads = ThreadedTuner

SpecPreempt == InitPreempt /\ [][Next]_vars

\* ----------------------------------------------------------------- claims

IdsOf(s) == { s[k].id : k \in 1..Len(s) }

Calls(op) == { k \in 1..Len(log) : log[k].op = op }

\* Positions of run inside a pass of assign_trial_to_worker.
PassPositions ==
    {"get_trial_progress", "update_phase", "cpu_slots", "gpu_slots",
     "gpu_first_slots", "get_active_trials", "send_signal"}

\* A pass of assign_trial_to_worker has ended and log holds its calls.
Ticked ==
    /\ log # NoEvent
    /\ log[1].op = "get_trial_progress"
    /\ pc \in {"wait", "done"}

\* Tuner.mutation calls of the scheduler's latest step that were answered.
Mutations == { k \in 1..Len(log) : log[k].op = "mutation" /\ log[k].n # NoDonor }

\* A step of the scheduler inside a pass of assign_trial_to_worker.
TickStep == pc \in PassPositions /\ pc' # pc

\* The step of a pass in which assign_trial_to_worker selects its strategy.
SelectStep ==
    /\ pc \in {"get_trial_progress", "update_phase"}
    /\ pc' \notin {"get_trial_progress", "update_phase"}

\* The step in which a pass of assign_trial_to_worker ends.
PassEnds == TickStep /\ pc' \in {"wait", "done"}

\* A step in which handle_done_futures routes a resolved handle.
RouteStep == pc \in {"wait", "mutation"} /\ pc' = "loop" /\ log' # NoEvent

\* The step in which the Tuner executes mutation for the routing under way.
MutationStep == tuner_reply.op = "none" /\ tuner_reply'.op = "mutation"

\* Snapshots sent to Tuner.record_trial_progress that the Tuner has not yet
\* executed.
RecordsInFlight ==
    { tuner_mailbox[k].args[1] :
        k \in { j \in 1..Len(tuner_mailbox) :
                  tuner_mailbox[j].op = "record_trial_progress" } }

InScenario(n, g, c) ==
    trial_state_nums = n /\ Len(gpu_workers) = g /\ Len(cpu_workers) = c

\* Places a trial id is held in, of pending / tracked in-flight / completed.
Places(i) ==
    (IF i \in IdsOf(pending_trial_states) THEN 1 ELSE 0)
    + (IF i \in Range(running_futures) THEN 1 ELSE 0)
    + (IF i \in IdsOf(completed_trial_states) THEN 1 ELSE 0)

\* C1: at every tick boundary each of the N trial ids is in exactly one of
\* pending_trial_states, running_futures, completed_trial_states, and the three
\* sizes add up to N.
C1_PopulationConservation ==
    pc = "loop" =>
        /\ Len(pending_trial_states) + Len(running_futures)
              + Len(completed_trial_states) = trial_state_nums
        /\ \A i \in Ids : Places(i) = 1

\* C2: when run has left its loop, every trial is in completed_trial_states.
C2_ExitWithFullCompletion ==
    pc \in LeftLoop => Len(completed_trial_states) = trial_state_nums

\* C3: a trial routed to completed_trial_states stays there, is never on the
\* pending list again, and gets no further assign_trial.
C3_TerminalAbsorption ==
    [][ \A i \in Ids :
          i \in IdsOf(completed_trial_states) =>
             /\ i \in IdsOf(completed_trial_states')
             /\ i \notin IdsOf(pending_trial_states')
             /\ futures'[i].state = "none"
             /\ \A k \in 1..Len(log') :
                   ~(log'[k].op = "assign_trial" /\ log'[k].id = i) ]_vars

\* A trial has terminated and a later tick has assigned another trial.
C3_Witness ==
    /\ completed_trial_states # << >>
    /\ Calls("assign_trial") # { }

\* C4: a tick that finds |completed| > N - 3*|gpu_workers|, or that follows a
\* gpu-first tick, selects gpu-first.
C4_SwitchoverIrreversible ==
    [][ ( /\ SelectStep
          /\ \/ strategy = "gpu_first"
             \/ Len(completed_trial_states)
                   > trial_state_nums - 3 * Len(gpu_workers) )
        => strategy' = "gpu_first" ]_vars

\* A run that started round-robin has switched, and gpu-first ticks again.
C4_Witness ==
    /\ InScenario(3, 1, 1)
    /\ completed_trial_states # << >>
    /\ strategy = "gpu_first"
    /\ Ticked

\* C5 as stated: with one GPU worker, one CPU worker and N = 2, no tick
\* selects gpu-first.
C5_AlwaysRoundRobin == InScenario(2, 1, 1) => strategy # "gpu_first"

\* C5 amended: with one GPU worker, one CPU worker and N = 2, every tick
\* selects gpu-first; round-robin is never selected.
C5_AlwaysGpuFirst == InScenario(2, 1, 1) => strategy # "round_robin"

C5_Witness == InScenario(2, 1, 1) /\ strategy = "gpu_first" /\ Ticked

\* The phase before the latest tick (the tick's first call recorded it).
PhaseBeforeTick == log[1].n

\* C6: a tick that changes the phase sends every worker exactly one
\* update_phase carrying the new phase, all acknowledged and all sent before
\* any assign_trial of the tick; a tick that leaves the phase alone sends none.
C6_PhaseBroadcast ==
    Ticked =>
        IF PhaseBeforeTick # current_phase
        THEN /\ \A w \in Range(workers) :
                  /\ Cardinality({ k \in Calls("update_phase") : log[k].to = w }) = 1
                  /\ worker_phase[w] = current_phase
             /\ \A k \in Calls("update_phase") :
                  /\ log[k].n = current_phase
                  /\ log[k].status = ""
                  /\ \A j \in Calls("assign_trial") : k < j
        ELSE Calls("update_phase") = { }

\* The phase advanced in a tick that also assigned a trial.
C6_Witness ==
    /\ Ticked
    /\ PhaseBeforeTick # current_phase
    /\ Len(workers) >= 2
    /\ Calls("assign_trial") # { }

\* C7: trial_phase.current_phase never decreases.
C7_MonotonePhase == [][ current_phase' >= current_phase ]_vars

\* The phase has advanced in a run in which a trial mutated from another
\* trial's checkpoint was recorded.
C7_Witness ==
    /\ current_phase >= 1
    /\ \E i \in Ids : trial_progress[i].checkpoint \notin { -1, i }

\* C8: the iteration recorded in the ledger for a trial never decreases,
\* whichever call writes it; so the iterations record_trial_progress pushes
\* for a trial never decrease.
C8_IterationMonotone ==
    [][ \A i \in Ids : trial_progress'[i].iteration >= trial_progress[i].iteration ]_vars

\* A trial that had made progress went through Tuner.mutation and the Tuner
\* has recorded it.
C8_Witness ==
    /\ RecordsInFlight = { }
    /\ \E k \in Mutations :
          \E j \in Calls("record_trial_progress") :
            /\ log[j].id = log[k].id /\ log[j].n > 0 /\ log[k].n # log[k].id
            /\ trial_progress[log[j].id].iteration = log[j].n
            /\ trial_progress[log[j].id].checkpoint = trial_progress[log[k].n].checkpoint

\* C9: a step that calls Tuner.mutation for the returned state of trial t with
\* donor d re-queues a state with d's checkpoint, d's lr times 0.8 and d's
\* momentum times 1.2 (d's values before the call), d's batch_size and
\* model_type, and t's own id, iteration and accuracy; d is in the upper list.
\* The Tuner answers such a state when it executes the call, and the state
\* re-queued when ray.get returns is the state answered.
C9_DonorProvenance ==
    [][ \A k \in 1..Len(log') :
          /\ (MutationStep /\ log'[k].op = "mutation") =>
                LET got == futures[log'[k].id].val
                    d == trial_progress[log'[k].n]
                    ts == tuner_reply'.val[1]
                IN  /\ log'[k].n \in Donors(trial_progress)
                    /\ ts.checkpoint = d.checkpoint
                    /\ ts.hyperparameter.lr * 10 = d.hyperparameter.lr * 8
                    /\ ts.hyperparameter.momentum * 10 = d.hyperparameter.momentum * 12
                    /\ ts.hyperparameter.batch_size = d.hyperparameter.batch_size
                    /\ ts.hyperparameter.model_type = d.hyperparameter.model_type
                    /\ ts.id = got.id
                    /\ ts.iteration = got.iteration
                    /\ ts.accuracy = got.accuracy
          /\ (RouteStep /\ log'[k].op = "mutation") =>
                LET answer == tuner_reply.val[1]
                    ts == pending_trial_states'[Len(pending_trial_states')]
                IN  /\ ts.checkpoint = answer.checkpoint
                    /\ ts.hyperparameter = answer.hyperparameter
                    /\ ts.id = answer.id
                    /\ ts.iteration = answer.iteration
                    /\ ts.accuracy = answer.accuracy ]_vars

\* A trial was mutated from another trial that holds a checkpoint.
C9_Witness ==
    \E k \in Mutations :
        /\ log[k].n # log[k].id
        /\ trial_progress[log[k].n].checkpoint # -1
        /\ trial_progress[log[k].id].checkpoint = trial_progress[log[k].n].checkpoint

\* C10: a step that resolves a handle to a state with status PENDING appends
\* that state to pending_trial_states with id, iteration, accuracy, checkpoint,
\* hyperparameter and status as returned, leaves completed_trial_states alone
\* and does not call Tuner.mutation.
C10_CollisionRequeue ==
    [][ \A k \in 1..Len(log') :
          (RouteStep /\ log'[k].op = "ray.get" /\ log'[k].status = "PENDING") =>
            LET got == futures[log'[k].id].val
                ts == pending_trial_states'[Len(pending_trial_states')]
            IN  /\ Len(pending_trial_states') = Len(pending_trial_states) + 1
                /\ ts.id = got.id
                /\ ts.iteration = got.iteration
                /\ ts.accuracy = got.accuracy
                /\ ts.checkpoint = got.checkpoint
                /\ ts.hyperparameter = got.hyperparameter
                /\ ts.status = got.status
                /\ completed_trial_states' = completed_trial_states
                /\ \A j \in 1..Len(log') : log'[j].op # "mutation" ]_vars

\* A collision was routed for a trial that had progressed and been mutated.
C10_Witness ==
    \E k \in Calls("ray.get") :
        /\ log[k].status = "PENDING"
        /\ log[k].n > 0
        /\ trial_progress[log[k].id].checkpoint # -1

\* C11: at every tick boundary every trial on pending_trial_states or
\* completed_trial_states has worker_id = -1 and worker_type = NONE, and so has
\* every snapshot sent to the Tuner with record_trial_progress.
C11_QueueUnassigned ==
    /\ pc = "loop" =>
          \A ts \in Range(pending_trial_states) \cup Range(completed_trial_states) :
              ts.worker_id = -1 /\ ts.worker_type = "NONE"
    /\ \A ts \in RecordsInFlight : ts.worker_id = -1 /\ ts.worker_type = "NONE"

\* A trial that a worker returned is queued again, its snapshot is on its way
\* to the Tuner, and another trial has terminated.
C11_Witness ==
    /\ pc = "loop"
    /\ completed_trial_states # << >>
    /\ \E ts \in Range(pending_trial_states) :
          /\ ts.checkpoint # -1 /\ ts.iteration > 0
          /\ ts \in RecordsInFlight

\* C12: when run has left its loop with fewer than N trials in
\* completed_trial_states, it reports a failed run.
C12_FailedRunReported ==
    (pc \in LeftLoop /\ Len(completed_trial_states) < trial_state_nums)
        => RunReport = "failed"

\* C13: a step that resolves a handle to a state with status RUNNING aborts
\* run and records no progress for the trial.
C13_RunningIsFatal ==
    (\E k \in Calls("ray.get") : log[k].status = "RUNNING")
        => /\ pc = "raised"
           /\ Calls("record_trial_progress") = { }

\* C14: a pass of assign_trial_to_worker in which a get_available_slots query
\* is not answered does not end run with an error.
C14_QueryErrorSwallowed ==
    (\E k \in Calls("get_available_slots") : log[k].status = "ERROR")
        => pc # "raised"

\* C15: a tick that issues assign_trial for a trial has the trial's handle in
\* running_futures when it ends, whichever strategy it selected.
C15_HandleTracked ==
    Ticked => \A k \in Calls("assign_trial") : log[k].id \in Range(running_futures)

\* Positions in the log of the step's assign_trial calls to a worker of ws.
AssignedTo(ws) ==
    { k \in 1..Len(log') : log'[k].op = "assign_trial" /\ log'[k].to \in Range(ws) }

SignalsSent == { k \in 1..Len(log') : log'[k].op = "send_signal" }

\* Free slots the worker w reported in the pass.
Reported(w) == Answer(log, "get_available_slots", w)

\* Workers of ws that were asked for their free slots in the pass.
Queried(ws) ==
    { w \in Range(ws) : Asked(log, "get_available_slots", << w >>) }

GpuReportedFree == \E w \in Queried(gpu_workers) : Reported(w) > 0

CpuReportedFree == \E w \in Queried(cpu_workers) : Reported(w) > 0

\* Trials training on CPU workers when the step starts.
CpuActive == UNION { ActiveOn(futures, w) : w \in Range(cpu_workers) }

\* Trials the CPU workers reported as active in the pass, each with the
\* worker that reported it.
CpuReportedActive ==
    UNION { { << w, t >> : t \in Range(active_trials[w]) } : w \in Range(cpu_workers) }

\* The signal of the pass names the slowest trial reported active on a CPU
\* worker and went to the worker that reported it, which was assigned it.
SignalsSlowestCpuTrial ==
    /\ Cardinality(SignalsSent) = 1
    /\ \A k \in SignalsSent :
         /\ log'[k].status = ""
         /\ \E x \in CpuReportedActive :
              /\ x[2].id = log'[k].id
              /\ x[1] = log'[k].to
              /\ futures[x[2].id].worker = x[1]
              /\ \A y \in CpuReportedActive : y[2].iteration >= x[2].iteration

\* C16 as stated: a gpu-first tick that finds no GPU worker with a free slot
\* while a CPU worker has an active trial sends exactly one preempt signal
\* and assigns nothing.
C16_PreemptWhenNoGpuFree ==
    [][ (PassEnds /\ strategy' = "gpu_first" /\ ~GpuReportedFree /\ CpuActive # { })
        => /\ Cardinality(SignalsSent) = 1
           /\ AssignedTo(workers) = { } ]_vars

\* C16 amended: a gpu-first tick in which a GPU worker reports a free slot,
\* nothing is pending and a CPU worker has an active trial sends exactly one
\* preempt signal, for the trial of minimum iteration among the trials active
\* on CPU workers, to the worker training it, and assigns nothing; every
\* other gpu-first tick sends no signal.  The active trials of a CPU worker
\* are those it answers to get_active_trials in the tick.
C16_PreemptWhenGpuFree ==
    [][ (PassEnds /\ strategy' = "gpu_first")
        => IF GpuReportedFree /\ pending_trial_states = << >>
                 /\ CpuReportedActive # { }
           THEN /\ SignalsSlowestCpuTrial
                /\ AssignedTo(workers) = { }
                /\ running_futures' = running_futures
           ELSE SignalsSent = { } ]_vars

\* A gpu-first tick found two CPU workers training and has signalled the
\* second one, whose trial is behind the trial of the first.
C16_Witness ==
    /\ pc = "send_signal"
    /\ strategy = "gpu_first"
    /\ Len(cpu_workers) >= 2
    /\ \E k \in Calls("send_signal") :
         /\ log[k].status = ""
         /\ log[k].to = cpu_workers[2]
         /\ \E t \in Range(active_trials[cpu_workers[1]]) : t.iteration > log[k].n
         /\ \E t \in Range(active_trials[cpu_workers[2]]) :
              t.id = log[k].id /\ t.iteration = log[k].n

\* C17: a round-robin tick that finds a CPU worker with a free slot and a
\* pending trial with phase <= current_phase assigns exactly one trial: one of
\* maximum iteration among those eligible trials, to the first CPU worker with
\* a free slot, and takes it off pending_trial_states; no tick assigns a trial
\* with phase > current_phase to a CPU worker.
C17_CpuDispatchAndPhaseGate ==
    [][ TickStep =>
          /\ \A k \in AssignedTo(cpu_workers) :
                futures'[log'[k].id].val.phase <= current_phase'
          /\ ( /\ strategy' = "round_robin"
               /\ pc = "cpu_slots"
               /\ CpuReportedFree
               /\ \E t \in Range(pending_trial_states) : t.phase <= current_phase )
             => /\ Cardinality(AssignedTo(workers)) = 1
                /\ \A k \in AssignedTo(workers) :
                     LET ts == futures'[log'[k].id].val
                     IN  /\ ts \in Range(pending_trial_states)
                         /\ ts.phase <= current_phase
                         /\ \A t \in Range(pending_trial_states) :
                              t.phase <= current_phase => t.iteration <= ts.iteration
                         /\ \E j \in 1..Len(cpu_workers) :
                              /\ log'[k].to = cpu_workers[j]
                              /\ Reported(cpu_workers[j]) > 0
                              /\ \A i \in 1..(j - 1) : Reported(cpu_workers[i]) = 0
                         /\ ts.id \notin IdsOf(pending_trial_states')
                         /\ Len(pending_trial_states')
                               = Len(pending_trial_states) - 1 ]_vars

\* A round-robin tick gave a CPU worker the further advanced of two eligible
\* trials, which was not the first of the pending list.
C17_Witness ==
    /\ Ticked
    /\ strategy = "round_robin"
    /\ \E k \in Calls("assign_trial") :
         /\ log[k].to \in Range(cpu_workers)
         /\ \E t \in Range(pending_trial_states) :
              t.phase <= current_phase /\ t.iteration < log[k].n

\* C18 as stated: a round-robin tick that assigns a trial to a GPU worker
\* found no CPU worker with a free slot.
C18_GpuOnlyWhenNoCpuFree ==
    [][ (TickStep /\ strategy' = "round_robin" /\ AssignedTo(gpu_workers) # { })
        => ~CpuReportedFree ]_vars

\* C18 amended: a round-robin tick that assigns a trial to a GPU worker found
\* no CPU worker with a free slot, or no pending trial with
\* phase <= current_phase.
C18_GpuWhenNoCpuDispatch ==
    [][ (TickStep /\ strategy' = "round_robin" /\ AssignedTo(gpu_workers) # { })
        => \/ ~CpuReportedFree
           \/ \A t \in Range(pending_trial_states) : t.phase > current_phase ]_vars

\* A round-robin tick assigned a trial to a GPU worker although a CPU worker
\* had reported a free slot.
C18_Witness ==
    /\ Ticked
    /\ strategy = "round_robin"
    /\ \E k \in Calls("assign_trial") : log[k].to \in Range(gpu_workers)
    /\ \E k \in Calls("get_available_slots") :
         log[k].to \in Range(cpu_workers) /\ log[k].n > 0

\* C19: a tick of either strategy that assigns a trial to a GPU worker picks
\* the first GPU worker, in worker order, among those with the most free
\* slots, and a pending trial of minimum iteration among all pending trials.
C19_GpuDispatchChoice ==
    [][ TickStep =>
          \A k \in AssignedTo(gpu_workers) :
             LET ts == futures'[log'[k].id].val
             IN  /\ ts \in Range(pending_trial_states)
                 /\ \A t \in Range(pending_trial_states) : t.iteration >= ts.iteration
                 /\ \E j \in 1..Len(gpu_workers) :
                      /\ log'[k].to = gpu_workers[j]
                      /\ Reported(gpu_workers[j]) > 0
                      /\ \A i \in 1..Len(gpu_workers) :
                           Reported(gpu_workers[i]) <= Reported(gpu_workers[j])
                      /\ \A i \in 1..(j - 1) :
                           Reported(gpu_workers[i]) < Reported(gpu_workers[j]) ]_vars

\* A tick passed over the first GPU worker, which had a free slot, for a later
\* one with more free slots.
C19_Witness ==
    /\ Ticked
    /\ Len(gpu_workers) >= 2
    /\ \E k \in Calls("assign_trial") : log[k].to = gpu_workers[2]
    /\ \E k \in Calls("get_available_slots") :
         log[k].to = gpu_workers[1] /\ log[k].n > 0

\* C20: a step that resolves a handle puts a TERMINATE result on
\* completed_trial_states only, and a NEED_MUTATION, PAUSE or PENDING result at
\* the end of pending_trial_states only, with status PENDING; for
\* NEED_MUTATION the re-queued state carries what Tuner.mutation returned.
\* Every trial on pending_trial_states has status PENDING and every trial on
\* completed_trial_states has status TERMINATE.
C20_CompletionRouting ==
    [][ /\ \A t \in Range(pending_trial_states') : t.status = "PENDING"
        /\ \A t \in Range(completed_trial_states') : t.status = "TERMINATE"
        /\ \A k \in 1..Len(log') :
             (RouteStep /\ log'[k].op = "ray.get") =>
               LET got == futures[log'[k].id].val
                   np == Len(pending_trial_states')
                   nc == Len(completed_trial_states')
               IN  /\ got.status = "TERMINATE" =>
                        /\ nc = Len(completed_trial_states) + 1
                        /\ completed_trial_states'[nc].id = got.id
                        /\ pending_trial_states' = pending_trial_states
                        /\ got.id \notin IdsOf(pending_trial_states')
                   /\ got.status \in {"NEED_MUTATION", "PAUSE", "PENDING"} =>
                        /\ np = Len(pending_trial_states) + 1
                        /\ pending_trial_states'[np].id = got.id
                        /\ pending_trial_states'[np].status = "PENDING"
                        /\ completed_trial_states' = completed_trial_states
                        /\ got.id \notin IdsOf(completed_trial_states')
                   /\ got.status = "NEED_MUTATION" =>
                        \E j \in 1..Len(log') :
                          /\ log'[j].op = "mutation"
                          /\ log'[j].id = got.id
                          /\ LET m == tuner_reply.val[1]
                                 ts == pending_trial_states'[np]
                             IN  /\ ts.hyperparameter = m.hyperparameter
                                 /\ ts.checkpoint = m.checkpoint
                                 /\ ts.iteration = m.iteration
                                 /\ ts.accuracy = m.accuracy ]_vars

\* A NEED_MUTATION result was re-queued in a run in which a trial terminated.
C20_Witness ==
    /\ completed_trial_states # << >>
    /\ \E k \in Mutations :
         /\ pending_trial_states # << >>
         /\ pending_trial_states[Len(pending_trial_states)].id = log[k].id
         /\ log[k].n # log[k].id

\* C21: run never waits on a call to the Tuner that the Tuner actor cannot
\* take up: whenever run is blocked in ray.get on get_trial_progress or
\* mutation, the actor has a free thread to answer it.
C21_NoSelfCallDeadlock ==
    pc \in AwaitingTuner => TunerCanServe

\* C22: a step that calls Tuner.mutation with a donor other than the mutated
\* trial leaves the donor's ledger entry, and every ledger entry but the
\* mutated trial's own, as it was.
C22_MutationLeavesLedger ==
    [][ \A k \in 1..Len(log') :
          (MutationStep /\ log'[k].op = "mutation") =>
            \A i \in Ids : i # log'[k].id => trial_progress'[i] = trial_progress[i] ]_vars

====
